---------------------------- MODULE Spec2Model ----------------------------
(***************************************************************************)
(* State-machine model of the command-line utilities of UdemyBoto3Scripts  *)
(* that change AWS state:                                                  *)
(*   delete_unused_untagged_ebs_volumes.py   (variables volState, volTags, *)
(*                                            vol)                         *)
(*   IAM/create_120users.py                  (iamUsers, usr)               *)
(*   access_keys.py                          (keyMeta, keys)               *)
(*   start_stop_re_ter.py                    (instState, ec2)              *)
(*   resource_ebs_snap.py                    (snapshots, snap)             *)
(* and of the helpers of aws_utils.py they share (aws).                    *)
(* Each script has its own specification (SpecVol, SpecUsers, SpecKeys,    *)
(* SpecEc2, SpecSnap), as has aws_utils.py (SpecAws); SpecScripts is a run *)
(* of any one of the five scripts from its main().  One action is one SDK  *)
(* call together with the                                                  *)
(* script's local code that follows it up to the next SDK call, so that    *)
(* the account can change between two calls of a script.  Every SDK call   *)
(* can succeed or raise a ClientError; what the script does with the       *)
(* error is part of the action.                                            *)
(***************************************************************************)
EXTENDS Integers, Sequences, FiniteSets, TLC

VARIABLES
    volState,   \* EBS: volume id -> "available" | "in-use" | "deleted"
    volTags,    \* EBS: volume id -> set of tag keys
    vol,        \* delete_unused_untagged_ebs_volumes.main: args, locals, output
    iamUsers,   \* IAM: the set of existing user names
    usr,        \* create_120users.create_users: args, locals, output
    keyMeta,    \* IAM: access key id -> [Status, CreateDate] of the key
    keys,       \* access_keys.main: args, locals, output
    instState,  \* EC2: instance id -> state name
    ec2,        \* start_stop_re_ter.change_state: args, locals
    snapshots,  \* EBS: the set of snapshot ids that exist
    snap,       \* resource_ebs_snap.create_snapshots: args, locals
    aws         \* aws_utils.get_client / get_resource: args, environment, results

vars == <<volState, volTags, vol, iamUsers, usr, keyMeta, keys,
          instState, ec2, snapshots, snap, aws>>

volVars  == <<volState, volTags, vol>>
usrVars  == <<iamUsers, usr>>
keysVars == <<keyMeta, keys>>
ec2Vars  == <<instState, ec2>>
snapVars == <<snapshots, snap>>

\* What the actions of one script leave alone: the other scripts and their services.
notVol  == <<usrVars, keysVars, ec2Vars, snapVars, aws>>
notUsr  == <<volVars, keysVars, ec2Vars, snapVars, aws>>
notKeys == <<volVars, usrVars, ec2Vars, snapVars, aws>>
notEc2  == <<volVars, usrVars, keysVars, snapVars, aws>>
notSnap == <<volVars, usrVars, keysVars, ec2Vars, aws>>
notAws  == <<volVars, usrVars, keysVars, ec2Vars, snapVars>>

\* A script that is not the subject of the specification at hand.
Idle == [pc |-> "idle"]

\* Python's None.
None == "None"

\* The ClientError codes the model lets an SDK call raise.
ErrorCodes == {"DryRunOperation", "UnauthorizedOperation"}

-----------------------------------------------------------------------------
(***************************************************************************)
(* delete_unused_untagged_ebs_volumes.py                                   *)
(***************************************************************************)

\* Number of EBS volumes in the account.
NumVolumes == 2

Volumes == 1..NumVolumes

TagKeys == {"Name"}

NoVolumesNotice == "No unused, untagged volumes found."
DryRunNotice    == "Dry run only. Re-run with --apply to delete volumes."
DeletionNotice  == "Deletion requested."

\* f"{volume_id}\t{state}"
VolumeLine(v) == <<v[1], "\t", v[2]>>

VolumeLines(volumes) == [n \in 1..Len(volumes) |-> VolumeLine(volumes[n])]

\* ec2.volumes.filter(status = available), in the order the API lists them.
AvailableVolumes(state) ==
    SelectSeq([n \in 1..NumVolumes |-> n], LAMBDA v : state[v] = "available")

\* find_unused_untagged_volumes: skip the tagged ones, keep (id, state).
FindUnusedUntaggedVolumes(state, tags) ==
    LET untagged == SelectSeq(AvailableVolumes(state), LAMBDA v : tags[v] = {})
    IN  [n \in 1..Len(untagged) |-> <<untagged[n], state[untagged[n]]>>]

\* One SDK call as a script issues it, with the target's state at that moment.
VolCall(op, v, state, tags) ==
    [op |-> op, VolumeId |-> v, state |-> state, tags |-> tags]

\* main, lines 71-87, with --apply ignored: the deletion branch is always taken.
VolMainListedAlwaysApply(r, volumes) ==
    IF volumes = <<>>
    THEN [r EXCEPT !.volumes = volumes, !.out = <<NoVolumesNotice>>, !.pc = "done"]
    ELSE [r EXCEPT !.volumes = volumes, !.out = VolumeLines(volumes),
                   !.volume_ids = [n \in 1..Len(volumes) |-> volumes[n][1]],
                   !.i = 1, !.pc = "deleting"]

\* main, lines 71-87: what main does with the listing, up to the first SDK call
\* of delete_volumes.
VolMainListed(r, volumes) ==
    IF volumes = <<>>
    THEN [r EXCEPT !.volumes = volumes, !.out = <<NoVolumesNotice>>, !.pc = "done"]
    ELSE IF r.apply
         THEN [r EXCEPT !.volumes = volumes, !.out = VolumeLines(volumes),
                        !.volume_ids = [n \in 1..Len(volumes) |-> volumes[n][1]],
                        !.i = 1, !.pc = "deleting"]
         ELSE [r EXCEPT !.volumes = volumes,
                        !.out = VolumeLines(volumes) \o <<DryRunNotice>>,
                        !.pc = "done"]

\* delete_volumes, lines 35-41 and main line 85: after delete_volume returned
\* for volume_ids[i], go on with the loop, the waiter, or the final notice.
VolAfterDelete(r) ==
    IF r.i < Len(r.volume_ids)
    THEN [r EXCEPT !.i = r.i + 1]
    ELSE IF r.wait /\ r.volume_ids # <<>>
         THEN [r EXCEPT !.i = r.i + 1, !.pc = "waiting"]
         ELSE [r EXCEPT !.i = r.i + 1, !.out = r.out \o <<DeletionNotice>>,
                        !.pc = "done"]

InitVol ==
    /\ volState \in [Volumes -> {"available", "in-use"}]
    /\ volTags \in [Volumes -> SUBSET TagKeys]
    /\ \E apply \in BOOLEAN, wait \in BOOLEAN :
         vol = [pc |-> "start", apply |-> apply, wait |-> wait,
                volumes |-> <<>>, volume_ids |-> <<>>, i |-> 0,
                out |-> <<>>, calls |-> <<>>]
    /\ iamUsers = {} /\ usr = Idle
    /\ keyMeta = <<>> /\ keys = Idle
    /\ instState = <<>> /\ ec2 = Idle
    /\ snapshots = {} /\ snap = Idle
    /\ aws = Idle

\* main lines 67-87: the listing succeeds.
VolList ==
    /\ vol.pc = "start"
    /\ vol' = VolMainListed(vol, FindUnusedUntaggedVolumes(volState, volTags))
    /\ UNCHANGED <<volState, volTags, notVol>>

\* main lines 67-70, 88-90: the listing raises; SystemExit(1).
VolListError ==
    /\ vol.pc = "start"
    /\ vol' = [vol EXCEPT !.pc = "failed"]
    /\ UNCHANGED <<volState, volTags, notVol>>

\* delete_volumes line 37: delete_volume succeeds (EC2 deletes an available volume).
VolDeleteOk ==
    /\ vol.pc = "deleting"
    /\ LET v == vol.volume_ids[vol.i] IN
         /\ volState[v] = "available"
         /\ volState' = [volState EXCEPT ![v] = "deleted"]
         /\ vol' = VolAfterDelete(
                [vol EXCEPT !.calls = Append(vol.calls,
                     VolCall("delete_volume", v, volState[v], volTags[v]))])
    /\ UNCHANGED <<volTags, notVol>>

\* delete_volumes line 37: delete_volume raises (VolumeInUse, NotFound, ...);
\* the error leaves delete_volumes and main exits with status 1.
VolDeleteError ==
    /\ vol.pc = "deleting"
    /\ LET v == vol.volume_ids[vol.i] IN
         vol' = [vol EXCEPT !.pc = "failed",
                            !.calls = Append(vol.calls,
                     VolCall("delete_volume", v, volState[v], volTags[v]))]
    /\ UNCHANGED <<volState, volTags, notVol>>

\* delete_volumes lines 40-41, main line 85: the waiter returns.
VolWaitOk ==
    /\ vol.pc = "waiting"
    /\ vol' = [vol EXCEPT !.pc = "done",
                          !.out = vol.out \o <<DeletionNotice>>,
                          !.calls = Append(vol.calls,
                               VolCall("volume_deleted.wait", vol.volume_ids, None, None))]
    /\ UNCHANGED <<volState, volTags, notVol>>

\* delete_volumes lines 40-41: the waiter raises WaiterError.
VolWaitError ==
    /\ vol.pc = "waiting"
    /\ vol' = [vol EXCEPT !.pc = "failed",
                          !.calls = Append(vol.calls,
                               VolCall("volume_deleted.wait", vol.volume_ids, None, None))]
    /\ UNCHANGED <<volState, volTags, notVol>>

\* Another actor of the account attaches an available volume.
EnvAttach(v) ==
    /\ vol.pc \notin {"done", "failed"}
    /\ volState[v] = "available"
    /\ volState' = [volState EXCEPT ![v] = "in-use"]
    /\ UNCHANGED <<volTags, vol, notVol>>

\* Another actor of the account tags a volume.
EnvTag(v) ==
    /\ vol.pc \notin {"done", "failed"}
    /\ volState[v] # "deleted"
    /\ volTags[v] = {}
    /\ volTags' = [volTags EXCEPT ![v] = TagKeys]
    /\ UNCHANGED <<volState, vol, notVol>>

NextVol ==
    \/ VolList
    \/ VolListError
    \/ VolDeleteOk
    \/ VolDeleteError
    \/ VolWaitOk
    \/ VolWaitError
    \/ \E v \in Volumes : EnvAttach(v)
    \/ \E v \in Volumes : EnvTag(v)

SpecVol == InitVol /\ [][NextVol]_vars

\* C1 as stated: without --apply no delete_volume and no waiter call is issued,
\* and a finished run has printed the found volumes and the dry-run notice.
C1_Original ==
    ~vol.apply =>
        /\ vol.calls = <<>>
        /\ vol.pc = "done" =>
              vol.out = VolumeLines(vol.volumes) \o <<DryRunNotice>>

\* C1, amended: without --apply no delete_volume and no volume_deleted waiter
\* call is ever issued, whatever the listing and whatever --wait; a finished
\* run has printed the found volumes followed by the dry-run notice when the
\* listing is not empty, and only the no-volumes notice when it is empty; a run
\* whose listing raised has printed nothing.
C1_DryRunIssuesNoCall ==
    ~vol.apply =>
        /\ vol.calls = <<>>
        /\ vol.pc \in {"start", "done", "failed"}
        /\ vol.pc = "done" =>
              /\ vol.volumes # <<>> =>
                    vol.out = VolumeLines(vol.volumes) \o <<DryRunNotice>>
              /\ vol.volumes = <<>> => vol.out = <<NoVolumesNotice>>
        /\ vol.pc # "done" => vol.out = <<>>

C1_Witness ==
    /\ ~vol.apply /\ vol.wait /\ vol.pc = "done"
    /\ Len(vol.volumes) = NumVolumes

\* C2: every volume on which delete_volume is called is available and untagged
\* at the moment of the call.
C2_DeletedOnlyUnusedUntagged ==
    \A n \in 1..Len(vol.calls) :
        vol.calls[n].op = "delete_volume" =>
            /\ vol.calls[n].state = "available"
            /\ vol.calls[n].tags = {}

-----------------------------------------------------------------------------
(***************************************************************************)
(* IAM/create_120users.py                                                  *)
(***************************************************************************)

\* Largest --count the model tries (counts below 1 are tried too).
MaxCount == 2

Prefixes == {"demo-user-", "u"}
Starts   == {-1, 1}
Counts   == -1..MaxCount

DigitChar == <<"0", "1", "2", "3", "4", "5", "6", "7", "8", "9">>

RECURSIVE NatStr(_)
\* str(n) for n >= 0: the decimal digits, most significant first.
NatStr(n) ==
    IF n < 10 THEN DigitChar[n + 1]
    ELSE NatStr(n \div 10) \o DigitChar[(n % 10) + 1]

\* str(idx) of a Python int.
IntStr(i) == IF i < 0 THEN "-" \o NatStr(-i) ELSE NatStr(i)

\* f"{prefix}{idx}"
UserName(prefix, idx) == prefix \o IntStr(idx)

\* f"[dry-run] would create {user_name}"
DryRunLine(name) == "[dry-run] would create " \o name

\* f"Created user {user_name}"
CreatedLine(name) == "Created user " \o name

\* range(start, start + count) with the end one too far.
RangeStopOffByOne(start, count) == start + count + 1

\* range(start, start + count): the first index the loop does not take.
RangeStop(start, count) == start + count

\* The loop's test of apply, lost: every index is created.
IsDryRunNever(apply) == FALSE

\* Line 43, `if not apply`.
IsDryRun(apply) == ~apply

\* The user names the account may hold before the run.
PossibleUsers == {UserName(p, i) : p \in Prefixes, i \in {1, 2}}

InitUsers ==
    /\ iamUsers \in SUBSET PossibleUsers
    /\ \E prefix \in Prefixes, start \in Starts, count \in Counts,
          apply \in BOOLEAN :
         usr = [pc |-> "loop", prefix |-> prefix, start |-> start,
                count |-> count, apply |-> apply,
                idx |-> start, stop |-> RangeStop(start, count),
                considered |-> <<>>, calls |-> <<>>, out |-> <<>>,
                users0 |-> iamUsers]
    /\ volState = <<>> /\ volTags = <<>> /\ vol = Idle
    /\ keyMeta = <<>> /\ keys = Idle
    /\ instState = <<>> /\ ec2 = Idle
    /\ snapshots = {} /\ snap = Idle
    /\ aws = Idle

\* The loop takes the next index and forms its name (lines 41-42).
UsrTake(r) ==
    [r EXCEPT !.idx = r.idx + 1,
              !.considered = Append(r.considered, UserName(r.prefix, r.idx))]

\* Lines 41-45: one iteration without --apply.
UsrDryRunIter ==
    /\ usr.pc = "loop" /\ usr.idx < usr.stop
    /\ IsDryRun(usr.apply)
    /\ usr' = [UsrTake(usr) EXCEPT
                 !.out = Append(usr.out, DryRunLine(UserName(usr.prefix, usr.idx)))]
    /\ UNCHANGED <<iamUsers, notUsr>>

\* Lines 46-48: create_user succeeds; IAM creates the user.
UsrCreateOk ==
    /\ usr.pc = "loop" /\ usr.idx < usr.stop
    /\ ~IsDryRun(usr.apply)
    /\ LET name == UserName(usr.prefix, usr.idx) IN
         /\ name \notin iamUsers
         /\ iamUsers' = iamUsers \cup {name}
         /\ usr' = [UsrTake(usr) EXCEPT
                      !.calls = Append(usr.calls, name),
                      !.out = Append(usr.out, CreatedLine(name))]
    /\ UNCHANGED notUsr

\* Lines 46-50: create_user raises EntityAlreadyExists; a warning, and the loop goes on.
UsrCreateExists ==
    /\ usr.pc = "loop" /\ usr.idx < usr.stop
    /\ ~IsDryRun(usr.apply)
    /\ LET name == UserName(usr.prefix, usr.idx) IN
         /\ name \in iamUsers
         /\ usr' = [UsrTake(usr) EXCEPT !.calls = Append(usr.calls, name)]
    /\ UNCHANGED <<iamUsers, notUsr>>

\* Lines 46-50: create_user raises another ClientError (AccessDenied,
\* LimitExceeded, ...), which the except clause does not catch: it leaves create_users.
UsrCreateError ==
    /\ usr.pc = "loop" /\ usr.idx < usr.stop
    /\ ~IsDryRun(usr.apply)
    /\ LET name == UserName(usr.prefix, usr.idx) IN
         usr' = [UsrTake(usr) EXCEPT !.calls = Append(usr.calls, name),
                                     !.pc = "raised"]
    /\ UNCHANGED <<iamUsers, notUsr>>

\* Line 41: the range is exhausted; create_users returns.
UsrReturn ==
    /\ usr.pc = "loop" /\ usr.idx >= usr.stop
    /\ usr' = [usr EXCEPT !.pc = "done"]
    /\ UNCHANGED <<iamUsers, notUsr>>

NextUsers ==
    \/ UsrDryRunIter
    \/ UsrCreateOk
    \/ UsrCreateExists
    \/ UsrCreateError
    \/ UsrReturn

SpecUsers == InitUsers /\ [][NextUsers]_vars

\* The names prefix+idx for idx = start .. start+count-1, ascending.
UsrRangeNames(r) ==
    [n \in 1..(IF r.count > 0 THEN r.count ELSE 0) |->
        UserName(r.prefix, r.start + n - 1)]

IsPrefixOf(s, t) == Len(s) <= Len(t) /\ s = SubSeq(t, 1, Len(s))

\* C3: without --apply no create_user call is issued for any index, the set of
\* IAM users is unchanged, and a finished run has printed exactly one
\* '[dry-run] would create <prefix><idx>' line per index of the range.
C3_DryRunCreatesNothing ==
    ~usr.apply =>
        /\ usr.calls = <<>>
        /\ iamUsers = usr.users0
        /\ usr.pc # "raised"
        /\ IsPrefixOf(usr.out, [n \in 1..Len(UsrRangeNames(usr)) |->
                                    DryRunLine(UsrRangeNames(usr)[n])])
        /\ usr.pc = "done" => Len(usr.out) = Len(UsrRangeNames(usr))

C3_Witness ==
    ~usr.apply /\ usr.pc = "done" /\ usr.count = MaxCount /\ usr.start = -1

\* C4 as stated: for every start and count create_users terminates after
\* considering exactly the names prefix+idx for idx = start .. start+count-1.
C4_Original ==
    usr.pc \in {"done", "raised"} => usr.considered = UsrRangeNames(usr)

\* C4, amended: create_users is bounded: it always terminates; the names it
\* considers are, in ascending order and each at most once, an initial part of
\* prefix+idx for idx = start .. start+count-1 (no name when count <= 0) and
\* never a name outside that range; when it returns normally it has considered
\* exactly all of them, and when create_user raises an error other than
\* EntityAlreadyExists it stops at the name that raised.
C4_BoundedRange ==
    /\ IsPrefixOf(usr.considered, UsrRangeNames(usr))
    /\ Len(usr.considered) = usr.idx - usr.start
    /\ usr.pc = "done" => usr.considered = UsrRangeNames(usr)
    /\ usr.pc = "raised" =>
          /\ usr.considered # <<>>
          /\ usr.calls # <<>>
          /\ usr.calls[Len(usr.calls)] = usr.considered[Len(usr.considered)]
    /\ usr.pc = "loop" => ENABLED NextUsers
    /\ \A n \in 1..Len(usr.calls) : \E m \in 1..Len(UsrRangeNames(usr)) :
          usr.calls[n] = UsrRangeNames(usr)[m]

C4_Witness ==
    /\ usr.pc = "done" /\ usr.apply /\ usr.count = MaxCount
    /\ Len(usr.calls) = MaxCount

-----------------------------------------------------------------------------
(***************************************************************************)
(* access_keys.py                                                          *)
(***************************************************************************)

\* Number of access keys in the account.
NumKeys == 3

\* Entries per page of the list_users and list_access_keys paginators.
PageSize == 1

AccessKeys == 1..NumKeys

\* The Users entries list_users returns, in order; one has no UserName.
UserEntries == <<"alice", None, "bob">>

\* The user an access key belongs to.
KeyOwner(k) == IF k % 2 = 1 THEN "alice" ELSE "bob"

KeyStatuses == {"Active", "Inactive"}

\* An optional datetime, in days: <<>> is None, <<d>> is day d.
NoDate == <<>>
Day(d) == <<d>>

\* CreateDate values; now is day 3.
KeyDates == {NoDate, Day(1), Day(2)}
NowValues == {3}
MaxAgeDays == {0, 1, 2}

KeyActions == {"report", "deactivate", "delete"}

NoKeysNotice == "No keys exceeded the age threshold."

RECURSIVE Pages(_, _)
\* A paginator: the entries cut into pages of at most `size`; at least one page.
Pages(entries, size) ==
    IF Len(entries) <= size THEN <<entries>>
    ELSE <<SubSeq(entries, 1, size)>>
         \o Pages(SubSeq(entries, size + 1, Len(entries)), size)

\* The keys of a user as list_access_keys returns them.
UserKeys(u) ==
    SelectSeq([n \in 1..NumKeys |-> n], LAMBDA k : KeyOwner(k) = u)

\* The SDK calls and loop items of one page of keys of user u.
KeyPageEvents(u, page) ==
    <<[kind |-> "keys_page", user |-> u, key |-> None]>>
    \o [n \in 1..Len(page) |-> [kind |-> "key", user |-> u, key |-> page[n]]]

RECURSIVE KeyPagesEvents(_, _)
KeyPagesEvents(u, pages) ==
    IF pages = <<>> THEN <<>>
    ELSE KeyPageEvents(u, Head(pages)) \o KeyPagesEvents(u, Tail(pages))

RECURSIVE UserPageEvents(_)
\* _iter_users lines 21-24 and find_old_access_keys lines 35-38 for one page of
\* users: an entry without UserName is skipped.
UserPageEvents(page) ==
    IF page = <<>> THEN <<>>
    ELSE (IF Head(page) # None
          THEN KeyPagesEvents(Head(page), Pages(UserKeys(Head(page)), PageSize))
          ELSE <<>>)
         \o UserPageEvents(Tail(page))

RECURSIVE UserPagesEvents(_)
UserPagesEvents(pages) ==
    IF pages = <<>> THEN <<>>
    ELSE <<[kind |-> "users_page", user |-> None, key |-> None]>>
         \o UserPageEvents(Head(pages)) \o UserPagesEvents(Tail(pages))

\* find_old_access_keys, lines 35-38: the page fetches and the keys in the
\* order the nested loops meet them.
ScanOrder == UserPagesEvents(Pages(UserEntries, PageSize))

\* Lines 39-43 with `<=` for `<`.
KeyIsOldInclusive(m, cutoff, include_disabled) ==
    IF m.Status # "Active" /\ ~include_disabled THEN FALSE
    ELSE m.CreateDate # NoDate /\ m.CreateDate[1] <= cutoff

\* Lines 39-43: whether the loop body reaches the yield for a key.
KeyIsOld(m, cutoff, include_disabled) ==
    IF m.Status # "Active" /\ ~include_disabled THEN FALSE
    ELSE m.CreateDate # NoDate /\ m.CreateDate[1] < cutoff

\* get_access_key_last_used(...).get("AccessKeyLastUsed", {}) for a key.
AccessKeyLastUsed(k) ==
    IF k % 2 = 1 THEN [LastUsedDate |-> NoDate, Region |-> None]
    ELSE [LastUsedDate |-> Day(2), Region |-> "us-east-1"]

\* Lines 47-54: the dict yielded for a key.
YieldedKey(u, k, m) ==
    [UserName |-> u, AccessKeyId |-> k, Status |-> m.Status,
     CreateDate |-> m.CreateDate,
     LastUsed |-> AccessKeyLastUsed(k).LastUsedDate,
     Region |-> AccessKeyLastUsed(k).Region]

\* datetime.isoformat() of a day.
IsoFormat(d) == "day-" \o NatStr(d[1])

\* main lines 122-129: the report line of a key.
ReportLine(key) ==
    <<key.UserName, "\t", key.AccessKeyId, "\t", key.Status, "\tcreated=",
      IF key.CreateDate # NoDate THEN IsoFormat(key.CreateDate) ELSE "",
      "\tlast_used=",
      IF key.LastUsed # NoDate THEN IsoFormat(key.LastUsed) ELSE "never">>

ReportLines(ks) == [n \in 1..Len(ks) |-> ReportLine(ks[n])]

\* main lines 131-134 with the final branch an else: report deletes.
KeysMutatesElseDelete(action) == action \in KeyActions

\* main lines 131-134: the actions for which a mutating loop runs.
KeysMutates(action) == action = "deactivate" \/ action = "delete"

\* Both branches of lines 131-134 calling delete_keys.
KeysOperationBothDelete(action) == "delete_access_key"

\* main lines 131-134, deactivate_keys line 59, delete_keys line 67: the SDK
\* operation the chosen loop calls.
KeysOperation(action) ==
    IF action = "deactivate" THEN "update_access_key" ELSE "delete_access_key"

\* main lines 110-134: list() has exhausted the generator; report, then
\* choose the loop.
KeysMainListed(r) ==
    IF r.yielded = <<>>
    THEN [r EXCEPT !.listed = TRUE, !.old_keys = r.yielded,
                   !.out = <<NoKeysNotice>>, !.pc = "done"]
    ELSE [r EXCEPT !.listed = TRUE, !.old_keys = r.yielded,
                   !.out = ReportLines(r.yielded), !.i = 1,
                   !.pc = IF KeysMutates(r.action) THEN "mutating" ELSE "done"]

InitKeys ==
    /\ keyMeta \in [AccessKeys -> [Status : KeyStatuses, CreateDate : KeyDates]]
    /\ \E max_age_days \in MaxAgeDays, include_disabled \in BOOLEAN,
          action \in KeyActions, now \in NowValues :
         keys = [pc |-> "scanning", max_age_days |-> max_age_days,
                 include_disabled |-> include_disabled, action |-> action,
                 now |-> now, cutoff |-> now - max_age_days,
                 pos |-> 1, yielded |-> <<>>, listed |-> FALSE,
                 old_keys |-> <<>>, out |-> <<>>, calls |-> <<>>, i |-> 0,
                 meta0 |-> keyMeta]
    /\ volState = <<>> /\ volTags = <<>> /\ vol = Idle
    /\ iamUsers = {} /\ usr = Idle
    /\ instState = <<>> /\ ec2 = Idle
    /\ snapshots = {} /\ snap = Idle
    /\ aws = Idle

KeysScanning == keys.pc = "scanning" /\ keys.pos <= Len(ScanOrder)

\* A paginator fetches its next page (lines 20 and 37).
KeysPageOk ==
    /\ KeysScanning
    /\ ScanOrder[keys.pos].kind # "key"
    /\ keys' = [keys EXCEPT !.pos = keys.pos + 1]
    /\ UNCHANGED <<keyMeta, notKeys>>

\* A paginator's call raises; the generator and list() raise, SystemExit(1).
KeysPageError ==
    /\ KeysScanning
    /\ ScanOrder[keys.pos].kind # "key"
    /\ keys' = [keys EXCEPT !.pc = "failed"]
    /\ UNCHANGED <<keyMeta, notKeys>>

\* Lines 38-43: a key that is not yielded.
KeysScanSkip ==
    /\ KeysScanning
    /\ ScanOrder[keys.pos].kind = "key"
    /\ ~KeyIsOld(keyMeta[ScanOrder[keys.pos].key], keys.cutoff,
                 keys.include_disabled)
    /\ keys' = [keys EXCEPT !.pos = keys.pos + 1]
    /\ UNCHANGED <<keyMeta, notKeys>>

\* Lines 38-54: a key that is yielded, get_access_key_last_used having answered.
KeysScanYield ==
    /\ KeysScanning
    /\ LET e == ScanOrder[keys.pos] IN
         /\ e.kind = "key"
         /\ KeyIsOld(keyMeta[e.key], keys.cutoff, keys.include_disabled)
         /\ keys' = [keys EXCEPT !.pos = keys.pos + 1,
                       !.yielded = Append(keys.yielded,
                                          YieldedKey(e.user, e.key, keyMeta[e.key]))]
    /\ UNCHANGED <<keyMeta, notKeys>>

\* Lines 44-46: get_access_key_last_used raises before the yield.
KeysLastUsedError ==
    /\ KeysScanning
    /\ LET e == ScanOrder[keys.pos] IN
         /\ e.kind = "key"
         /\ KeyIsOld(keyMeta[e.key], keys.cutoff, keys.include_disabled)
    /\ keys' = [keys EXCEPT !.pc = "failed"]
    /\ UNCHANGED <<keyMeta, notKeys>>

\* main lines 110-134: the generator is exhausted.
KeysListed ==
    /\ keys.pc = "scanning" /\ keys.pos > Len(ScanOrder)
    /\ keys' = KeysMainListed(keys)
    /\ UNCHANGED <<keyMeta, notKeys>>

KeysCall(op, key) ==
    [op |-> op, UserName |-> key.UserName, AccessKeyId |-> key.AccessKeyId,
     printed |-> Len(keys.out)]

\* deactivate_keys / delete_keys: the loop goes on or ends.
KeysAfterCall(r) ==
    [r EXCEPT !.i = r.i + 1,
              !.pc = IF r.i < Len(r.old_keys) THEN "mutating" ELSE "done"]

\* deactivate_keys lines 58-62: update_access_key(Status="Inactive") succeeds.
KeysDeactivateOk ==
    /\ keys.pc = "mutating"
    /\ KeysOperation(keys.action) = "update_access_key"
    /\ LET key == keys.old_keys[keys.i] IN
         /\ key.AccessKeyId \in DOMAIN keyMeta
         /\ keyMeta' = [keyMeta EXCEPT ![key.AccessKeyId].Status = "Inactive"]
         /\ keys' = KeysAfterCall([keys EXCEPT !.calls =
                        Append(keys.calls, KeysCall("update_access_key", key))])
    /\ UNCHANGED notKeys

\* delete_keys lines 66-70: delete_access_key succeeds.
KeysDeleteOk ==
    /\ keys.pc = "mutating"
    /\ KeysOperation(keys.action) = "delete_access_key"
    /\ LET key == keys.old_keys[keys.i] IN
         /\ key.AccessKeyId \in DOMAIN keyMeta
         /\ keyMeta' = [k \in DOMAIN keyMeta \ {key.AccessKeyId} |-> keyMeta[k]]
         /\ keys' = KeysAfterCall([keys EXCEPT !.calls =
                        Append(keys.calls, KeysCall("delete_access_key", key))])
    /\ UNCHANGED notKeys

\* Lines 59 and 67: the mutating call raises; main exits with status 1.
KeysMutateError ==
    /\ keys.pc = "mutating"
    /\ LET key == keys.old_keys[keys.i] IN
         keys' = [keys EXCEPT !.pc = "failed",
                    !.calls = Append(keys.calls,
                                     KeysCall(KeysOperation(keys.action), key))]
    /\ UNCHANGED <<keyMeta, notKeys>>

NextKeys ==
    \/ KeysPageOk
    \/ KeysPageError
    \/ KeysScanSkip
    \/ KeysScanYield
    \/ KeysLastUsedError
    \/ KeysListed
    \/ KeysDeactivateOk
    \/ KeysDeleteOk
    \/ KeysMutateError

SpecKeys == InitKeys /\ [][NextKeys]_vars

RECURSIVE KeysOfUsers(_)
\* The keys of the listed users, user by user in listing order.
KeysOfUsers(users) ==
    IF users = <<>> THEN <<>>
    ELSE UserKeys(Head(users)) \o KeysOfUsers(Tail(users))

ListedKeys == KeysOfUsers(SelectSeq(UserEntries, LAMBDA u : u # None))

\* The keys the claim says are yielded: created strictly before
\* now - max_age_days, and Active unless include_disabled is set.
ExpectedOldKeys ==
    SelectSeq(ListedKeys, LAMBDA k :
        /\ keys.meta0[k].CreateDate # NoDate
        /\ keys.meta0[k].CreateDate[1] < keys.now - keys.max_age_days
        /\ (keys.meta0[k].Status = "Active" \/ keys.include_disabled))

KeyIds(ks) == [n \in 1..Len(ks) |-> ks[n].AccessKeyId]

\* The keys the loops have met so far.
ScannedKeys ==
    {ScanOrder[n].key : n \in {m \in 1..(keys.pos - 1) : ScanOrder[m].kind = "key"}}

\* C5: with --action report no update_access_key and no delete_access_key
\* call is ever issued, and the status and existence of every access key stay
\* as they were before the run.
C5_ReportMutatesNothing ==
    keys.action = "report" =>
        /\ keys.calls = <<>>
        /\ keys.pc # "mutating"
        /\ keyMeta = keys.meta0

C5_Witness ==
    /\ keys.action = "report" /\ keys.pc = "done"
    /\ Len(keys.old_keys) = NumKeys
    /\ keys.out = ReportLines(keys.old_keys)

\* The page fetch that brought the key at position n of ScanOrder.
PageOfKey(n) ==
    CHOOSE m \in 1..n : /\ ScanOrder[m].kind = "keys_page"
                        /\ \A j \in (m + 1)..n : ScanOrder[j].kind = "key"

\* The keys on the pages list_access_keys has returned so far.
FetchedKeys ==
    {ScanOrder[n].key :
        n \in {m \in 1..Len(ScanOrder) :
                  ScanOrder[m].kind = "key" /\ PageOfKey(m) < keys.pos}}

\* C6 as stated: once find_old_access_keys has stopped, a key that was listed
\* has been yielded if and only if it is old enough and Active (or
\* include_disabled is set), each such key exactly once.
C6_Original ==
    keys.pc # "scanning" =>
        KeyIds(keys.yielded) =
            SelectSeq(ExpectedOldKeys, LAMBDA k : k \in FetchedKeys)

\* C6, amended: find_old_access_keys yields only keys whose CreateDate is
\* strictly earlier than now - max_age_days and whose Status is 'Active' or
\* include_disabled is set, each at most once and in listing order; of the
\* keys its loops have met it has yielded exactly those; when it is exhausted
\* without an SDK call raising it has yielded each such key of each listed user
\* exactly once, across all pages; when get_access_key_last_used (called for
\* every such key before it is yielded) or a paginator call raises, that key
\* and the keys not yet met are not yielded.
C6_YieldsExactlyOldKeys ==
    /\ KeyIds(keys.yielded) =
          SelectSeq(ExpectedOldKeys, LAMBDA k : k \in ScannedKeys)
    /\ \A n \in 1..Len(keys.yielded) :
          /\ keys.yielded[n].UserName = KeyOwner(keys.yielded[n].AccessKeyId)
          /\ keys.yielded[n].Status = keys.meta0[keys.yielded[n].AccessKeyId].Status
          /\ keys.yielded[n].CreateDate =
                keys.meta0[keys.yielded[n].AccessKeyId].CreateDate
    /\ keys.listed =>
          /\ KeyIds(keys.yielded) = ExpectedOldKeys
          /\ keys.old_keys = keys.yielded

C6_Witness ==
    /\ keys.listed /\ keys.include_disabled
    /\ Len(keys.yielded) = 2
    /\ \E k \in AccessKeys : keys.meta0[k].CreateDate = Day(keys.cutoff)
    /\ \E k \in AccessKeys : keys.meta0[k].Status = "Inactive"
                             /\ k \in {keys.yielded[n].AccessKeyId : n \in 1..2}

KeyCallIds == [n \in 1..Len(keys.calls) |-> keys.calls[n].AccessKeyId]

\* C7 as stated: with --action deactivate (resp. delete) a run that has ended
\* after the report has called update_access_key (resp. delete_access_key) for
\* exactly the reported keys, and every report line was printed before the
\* first mutating call.
C7_Original ==
    (keys.listed /\ keys.pc \in {"done", "failed"}
                 /\ keys.action \in {"deactivate", "delete"}) =>
        /\ KeyCallIds = KeyIds(keys.old_keys)
        /\ \A n \in 1..Len(keys.calls) :
              /\ keys.calls[n].op = (IF keys.action = "deactivate"
                                     THEN "update_access_key"
                                     ELSE "delete_access_key")
              /\ keys.calls[n].printed = Len(keys.old_keys)

\* C7, amended: with --action deactivate (resp. delete), update_access_key
\* with Status='Inactive' (resp. delete_access_key) is called only for
\* reported keys, in report order and each at most once, and for no other key:
\* for all of them when no call raises, and for those up to and including the
\* first one whose call raises otherwise; the other operation is never called;
\* the report line of every key is printed before the first mutating call.
C7_MutatesReportedKeys ==
    keys.action \in {"deactivate", "delete"} =>
        /\ IsPrefixOf(KeyCallIds, KeyIds(keys.old_keys))
        /\ \A n \in 1..Len(keys.calls) :
              /\ keys.calls[n].op = (IF keys.action = "deactivate"
                                     THEN "update_access_key"
                                     ELSE "delete_access_key")
              /\ keys.calls[n].UserName = keys.old_keys[n].UserName
              /\ keys.calls[n].printed = Len(keys.old_keys)
        /\ keys.calls # <<>> => keys.out = ReportLines(keys.old_keys)
        /\ (keys.listed /\ keys.pc = "done") =>
              KeyCallIds = KeyIds(keys.old_keys)
        /\ (keys.listed /\ keys.pc = "failed") => keys.calls # <<>>
        /\ ~keys.listed => keys.calls = <<>>
        /\ \A k \in AccessKeys :
              IF \E n \in 1..Len(keys.calls) :
                     keys.calls[n].AccessKeyId = k /\ (n < Len(keys.calls) \/ keys.pc # "failed")
              THEN IF keys.action = "delete" THEN k \notin DOMAIN keyMeta
                   ELSE keyMeta[k] = [keys.meta0[k] EXCEPT !.Status = "Inactive"]
              ELSE k \in DOMAIN keyMeta /\ keyMeta[k] = keys.meta0[k]

C7_Witness ==
    /\ keys.action = "deactivate" /\ keys.pc = "done"
    /\ Len(keys.calls) = 2 /\ Len(keys.old_keys) = 2
    /\ Len(keys.out) = 2

-----------------------------------------------------------------------------
(***************************************************************************)
(* start_stop_re_ter.py                                                    *)
(***************************************************************************)

\* Number of EC2 instances in the account.
NumInstances == 2

Instances == 1..NumInstances

\* The positional argument instance_ids (nargs="+"): one or more ids.
InstanceIdLists == UNION {[1..n -> Instances] : n \in 1..NumInstances}

Ec2Actions == {"start", "stop", "reboot", "terminate"}

\* ACTION_WAITERS with the stop entry naming the wrong waiter.
ACTION_WAITERS_StopRunning ==
    [start |-> "instance_running", stop |-> "instance_running",
     terminate |-> "instance_terminated"]

\* ACTION_WAITERS
ACTION_WAITERS ==
    [start |-> "instance_running", stop |-> "instance_stopped",
     terminate |-> "instance_terminated"]

\* The operations dict of change_state.
Operations ==
    [start |-> "start_instances", stop |-> "stop_instances",
     reboot |-> "reboot_instances", terminate |-> "terminate_instances"]

\* EC2: the state an instance is in right after an operation was accepted.
AfterOperation(op, state) ==
    CASE op = "start_instances" /\ state = "stopped" -> "pending"
      [] op = "stop_instances" /\ state = "running" -> "stopping"
      [] op = "terminate_instances" /\ state # "terminated" -> "shutting-down"
      [] OTHER -> state

\* EC2: the state a transitional state settles in.
Settled(state) ==
    CASE state = "pending" -> "running"
      [] state = "stopping" -> "stopped"
      [] state = "shutting-down" -> "terminated"
      [] OTHER -> state

\* botocore: the instance state a waiter polls for.
WaiterState(name) ==
    CASE name = "instance_running" -> "running"
      [] name = "instance_stopped" -> "stopped"
      [] name = "instance_terminated" -> "terminated"

Range(s) == {s[n] : n \in 1..Len(s)}

\* Lines 45-50 with the test of dry_run lost.
ChangeStateOnErrorAnyMode(r, code) ==
    IF code = "DryRunOperation"
    THEN [r EXCEPT !.api_error = code, !.pc = "returned"]
    ELSE [r EXCEPT !.api_error = code, !.raised = code, !.pc = "raised"]

\* Lines 45-50: the except clause of change_state.
ChangeStateOnError(r, code) ==
    IF r.dry_run /\ code = "DryRunOperation"
    THEN [r EXCEPT !.api_error = code, !.pc = "returned"]
    ELSE [r EXCEPT !.api_error = code, !.raised = code, !.pc = "raised"]

\* Lines 51-56: after the operation returned.
ChangeStateOnSuccess(r) ==
    IF r.wait /\ r.action \in DOMAIN ACTION_WAITERS
    THEN [r EXCEPT !.api_ok = TRUE, !.pc = "waiting",
                   !.waiters = Append(r.waiters,
                        [name |-> ACTION_WAITERS[r.action],
                         InstanceIds |-> r.instance_ids, completed |-> FALSE])]
    ELSE [r EXCEPT !.api_ok = TRUE, !.pc = "returned"]

Ec2Call(r) ==
    [op |-> Operations[r.action], InstanceIds |-> r.instance_ids,
     DryRun |-> r.dry_run]

InitEc2 ==
    /\ instState \in [Instances -> {"running", "stopped"}]
    /\ \E action \in Ec2Actions, instance_ids \in InstanceIdLists,
          dry_run \in BOOLEAN, wait \in BOOLEAN :
         ec2 = [pc |-> "start", action |-> action,
                instance_ids |-> instance_ids, dry_run |-> dry_run,
                wait |-> wait, calls |-> <<>>, waiters |-> <<>>,
                api_ok |-> FALSE, api_error |-> None, raised |-> None,
                inst0 |-> instState]
    /\ volState = <<>> /\ volTags = <<>> /\ vol = Idle
    /\ iamUsers = {} /\ usr = Idle
    /\ keyMeta = <<>> /\ keys = Idle
    /\ snapshots = {} /\ snap = Idle
    /\ aws = Idle

\* Lines 43-44, 51-56: the operation is accepted (EC2 accepts none with DryRun set).
Ec2CallOk ==
    /\ ec2.pc = "start"
    /\ ~ec2.dry_run
    /\ instState' = [i \in Instances |->
                        IF i \in Range(ec2.instance_ids)
                        THEN AfterOperation(Operations[ec2.action], instState[i])
                        ELSE instState[i]]
    /\ ec2' = ChangeStateOnSuccess(
                  [ec2 EXCEPT !.calls = Append(ec2.calls, Ec2Call(ec2))])
    /\ UNCHANGED notEc2

\* Lines 43-50: the operation raises a ClientError.
Ec2CallError(code) ==
    /\ ec2.pc = "start"
    /\ ec2' = ChangeStateOnError(
                  [ec2 EXCEPT !.calls = Append(ec2.calls, Ec2Call(ec2))], code)
    /\ UNCHANGED <<instState, notEc2>>

\* Line 56: the waiter returns, every instance being in the state it polls for.
Ec2WaitOk ==
    /\ ec2.pc = "waiting"
    /\ \A i \in Range(ec2.instance_ids) :
          instState[i] = WaiterState(ec2.waiters[Len(ec2.waiters)].name)
    /\ ec2' = [ec2 EXCEPT !.pc = "returned",
                          !.waiters[Len(ec2.waiters)].completed = TRUE]
    /\ UNCHANGED <<instState, notEc2>>

\* Line 56: the waiter raises WaiterError, which leaves change_state.
Ec2WaitError ==
    /\ ec2.pc = "waiting"
    /\ ec2' = [ec2 EXCEPT !.pc = "raised", !.raised = "WaiterError"]
    /\ UNCHANGED <<instState, notEc2>>

\* EC2: an instance in a transitional state settles.
Ec2Settle(i) ==
    /\ Settled(instState[i]) # instState[i]
    /\ instState' = [instState EXCEPT ![i] = Settled(instState[i])]
    /\ UNCHANGED <<ec2, notEc2>>

NextEc2 ==
    \/ Ec2CallOk
    \/ \E code \in ErrorCodes : Ec2CallError(code)
    \/ Ec2WaitOk
    \/ Ec2WaitError
    \/ \E i \in Instances : Ec2Settle(i)

SpecEc2 == InitEc2 /\ [][NextEc2]_vars

\* C8: when the operation raises a ClientError, change_state returns normally
\* exactly when dry_run is set and the code is 'DryRunOperation', and then no
\* waiter is invoked and no instance state changes; with any other code, or
\* with 'DryRunOperation' when dry_run is not set, the same error propagates
\* to the caller.
C8_DryRunOperationIsSuccess ==
    ec2.api_error # None =>
        /\ ec2.waiters = <<>>
        /\ IF ec2.dry_run /\ ec2.api_error = "DryRunOperation"
           THEN /\ ec2.pc = "returned"
                /\ ec2.raised = None
                /\ instState = ec2.inst0
           ELSE /\ ec2.pc = "raised"
                /\ ec2.raised = ec2.api_error

C8_Witness ==
    /\ ec2.dry_run /\ ec2.wait /\ ec2.api_error = "DryRunOperation"
    /\ ec2.pc = "returned" /\ ec2.action = "terminate"

\* The instance state an action aims at.
TargetState(action) ==
    CASE action = "start" -> "running"
      [] action = "stop" -> "stopped"
      [] action = "terminate" -> "terminated"

\* change_state has returned normally from a successful non-dry-run call made
\* with --wait.
Ec2ReturnedAfterWait ==
    ec2.pc = "returned" /\ ec2.wait /\ ~ec2.dry_run /\ ec2.api_ok

-----------------------------------------------------------------------------
(***************************************************************************)
(* resource_ebs_snap.py                                                    *)
(***************************************************************************)

\* Largest number of volume ids given to create_snapshots.
MaxVolumeIds == 2

SnapVolumes == {"vol-a", "vol-b"}

VolumeIdLists == UNION {[1..n -> SnapVolumes] : n \in 0..MaxVolumeIds}

\* EC2: the id of the next snapshot it starts.
NextSnapshotId(existing) == "snap-" \o NatStr(Cardinality(existing) + 1)

\* Lines 85-92 with the dry-run test lost: every ClientError is re-raised.
SnapOnErrorAlwaysRaise(r, code) ==
    [r EXCEPT !.raised = code, !.pc = "raised"]

\* Lines 85-92 with the dry-run branch trying the same volume again.
SnapOnErrorRetry(r, code) ==
    IF r.dry_run /\ code = "DryRunOperation"
    THEN r
    ELSE [r EXCEPT !.raised = code, !.pc = "raised"]

\* Lines 85-92: the except clause inside the loop of create_snapshots.
SnapOnError(r, code) ==
    IF r.dry_run /\ code = "DryRunOperation"
    THEN [r EXCEPT !.i = r.i + 1]
    ELSE [r EXCEPT !.raised = code, !.pc = "raised"]

\* create_snapshots line 81 keeping only the id of the latest response.
SnapOnResponseKeepLast(r, snapshot_id) ==
    IF snapshot_id # ""
    THEN [r EXCEPT !.i = r.i + 1, !.snapshot_ids = <<snapshot_id>>]
    ELSE [r EXCEPT !.i = r.i + 1]

\* Lines 79-84: response.get("SnapshotId"), appended when it is not empty.
SnapOnResponse(r, snapshot_id) ==
    IF snapshot_id # ""
    THEN [r EXCEPT !.i = r.i + 1,
                   !.snapshot_ids = Append(r.snapshot_ids, snapshot_id)]
    ELSE [r EXCEPT !.i = r.i + 1]

\* Lines 73-78: the create_snapshot call for volume_ids[i].
SnapCall(r) == [VolumeId |-> r.volume_ids[r.i], DryRun |-> r.dry_run]

InitSnap ==
    /\ snapshots \in {{}, {"snap-1"}}
    /\ \E volume_ids \in VolumeIdLists, dry_run \in BOOLEAN, wait \in BOOLEAN :
         snap = [pc |-> "loop", volume_ids |-> volume_ids,
                 dry_run |-> dry_run, wait |-> wait, i |-> 1,
                 snapshot_ids |-> <<>>, calls |-> <<>>, waits |-> <<>>,
                 raised |-> None, result |-> <<>>, snaps0 |-> snapshots]
    /\ volState = <<>> /\ volTags = <<>> /\ vol = Idle
    /\ iamUsers = {} /\ usr = Idle
    /\ keyMeta = <<>> /\ keys = Idle
    /\ instState = <<>> /\ ec2 = Idle
    /\ aws = Idle

SnapInLoop == snap.pc = "loop" /\ snap.i <= Len(snap.volume_ids)

\* Lines 72-84: create_snapshot starts a snapshot (EC2 starts none with DryRun set).
SnapCreateOk ==
    /\ SnapInLoop
    /\ ~snap.dry_run
    /\ snapshots' = snapshots \cup {NextSnapshotId(snapshots)}
    /\ snap' = SnapOnResponse(
                   [snap EXCEPT !.calls = Append(snap.calls, SnapCall(snap))],
                   NextSnapshotId(snapshots))
    /\ UNCHANGED notSnap

\* Lines 72-92: create_snapshot raises a ClientError.
SnapCreateError(code) ==
    /\ SnapInLoop
    /\ snap' = SnapOnError(
                   [snap EXCEPT !.calls = Append(snap.calls, SnapCall(snap))],
                   code)
    /\ UNCHANGED <<snapshots, notSnap>>

\* Lines 94-98: the loop is over and there is nothing to wait for.
SnapReturn ==
    /\ snap.pc = "loop" /\ snap.i > Len(snap.volume_ids)
    /\ ~(snap.wait /\ snap.snapshot_ids # <<>> /\ ~snap.dry_run)
    /\ snap' = [snap EXCEPT !.pc = "returned", !.result = snap.snapshot_ids]
    /\ UNCHANGED <<snapshots, notSnap>>

\* Lines 94-98: the snapshot_completed waiter is invoked and returns.
SnapWaitOk ==
    /\ snap.pc = "loop" /\ snap.i > Len(snap.volume_ids)
    /\ snap.wait /\ snap.snapshot_ids # <<>> /\ ~snap.dry_run
    /\ snap' = [snap EXCEPT !.pc = "returned", !.result = snap.snapshot_ids,
                            !.waits = Append(snap.waits, snap.snapshot_ids)]
    /\ UNCHANGED <<snapshots, notSnap>>

\* Lines 94-96: the snapshot_completed waiter raises WaiterError.
SnapWaitError ==
    /\ snap.pc = "loop" /\ snap.i > Len(snap.volume_ids)
    /\ snap.wait /\ snap.snapshot_ids # <<>> /\ ~snap.dry_run
    /\ snap' = [snap EXCEPT !.pc = "raised", !.raised = "WaiterError",
                            !.waits = Append(snap.waits, snap.snapshot_ids)]
    /\ UNCHANGED <<snapshots, notSnap>>

NextSnap ==
    \/ SnapCreateOk
    \/ \E code \in ErrorCodes : SnapCreateError(code)
    \/ SnapReturn
    \/ SnapWaitOk
    \/ SnapWaitError

SpecSnap == InitSnap /\ [][NextSnap]_vars

\* create_snapshot issued with DryRun=True for the first n volume ids, in order.
DryRunCalls(n) ==
    [m \in 1..n |-> [VolumeId |-> snap.volume_ids[m], DryRun |-> TRUE]]

\* C10 as stated: with dry_run set, a run that has ended has issued
\* create_snapshot with DryRun=True for every volume id; no snapshot is
\* created, the waiter is never invoked and the returned list is empty.
C10_Original ==
    snap.dry_run =>
        /\ snap.pc \in {"returned", "raised"} =>
              snap.calls = DryRunCalls(Len(snap.volume_ids))
        /\ snapshots = snap.snaps0
        /\ snap.waits = <<>>
        /\ snap.pc = "returned" => snap.result = <<>>

\* C10, amended: with dry_run set, create_snapshot is issued with DryRun=True
\* for the volume ids in order, a 'DryRunOperation' error on one volume does not
\* stop processing of the following volumes, and every volume id is reached
\* unless create_snapshot raises a ClientError with another code, which
\* propagates at once; no snapshot is created, the snapshot_completed waiter is
\* never invoked, and the list of snapshot ids returned is empty.
C10_DryRunSnapshots ==
    snap.dry_run =>
        /\ snap.calls = DryRunCalls(Len(snap.calls))
        /\ Len(snap.calls) <= Len(snap.volume_ids)
        /\ snap.pc = "loop" => Len(snap.calls) = snap.i - 1
        /\ snap.pc = "returned" =>
              /\ Len(snap.calls) = Len(snap.volume_ids)
              /\ snap.result = <<>>
        /\ snap.pc = "raised" =>
              /\ snap.raised \in ErrorCodes \ {"DryRunOperation"}
              /\ snap.calls # <<>>
        /\ snap.snapshot_ids = <<>>
        /\ snapshots = snap.snaps0
        /\ snap.waits = <<>>

C10_Witness ==
    /\ snap.dry_run /\ snap.wait /\ snap.pc = "returned"
    /\ Len(snap.calls) = MaxVolumeIds
    /\ snap.volume_ids[1] # snap.volume_ids[MaxVolumeIds]

NoDuplicates(s) == \A m, n \in 1..Len(s) : s[m] = s[n] => m = n

\* C11: the snapshot_completed waiter is invoked at most once, only when wait
\* is set, dry_run is not set and at least one snapshot was started, only
\* after create_snapshot has been issued for every volume id, and with exactly
\* the ids of all snapshots started in this run.
C11_WaiterOnceAfterAllSnapshots ==
    /\ Len(snap.waits) <= 1
    /\ snap.waits # <<>> =>
          /\ snap.wait /\ ~snap.dry_run
          /\ snap.waits[1] # <<>>
          /\ Len(snap.calls) = Len(snap.volume_ids)
          /\ \A n \in 1..Len(snap.calls) :
                snap.calls[n] = [VolumeId |-> snap.volume_ids[n], DryRun |-> FALSE]
          /\ NoDuplicates(snap.waits[1])
          /\ Range(snap.waits[1]) = snapshots \ snap.snaps0
          /\ Len(snap.waits[1]) = Len(snap.volume_ids)
    /\ (snap.pc = "returned" /\ snap.wait /\ ~snap.dry_run
                             /\ snapshots # snap.snaps0) => Len(snap.waits) = 1

C11_Witness ==
    /\ snap.pc = "returned" /\ snap.wait /\ ~snap.dry_run
    /\ Len(snap.waits) = 1 /\ Len(snap.waits[1]) = MaxVolumeIds
    /\ snap.snaps0 # {}

-----------------------------------------------------------------------------
(***************************************************************************)
(* aws_utils.py                                                            *)
(***************************************************************************)

\* Values of --region, of the profile's configured region and of the
\* environment variables: unset (None), empty, or a region name.
RegionArgs == {None, "", "eu-west-1", "us-east-1"}
ProfileRegions == {None, "eu-west-1", "us-east-1"}
EnvValues == {None, "", "eu-west-1", "us-east-1"}

\* Values of --profile; "missing" names a profile that is not configured.
ProfileArgs == {None, "", "dev", "missing"}

ServiceNames == {"ec2", "iam"}

\* An optional Config object: <<>> is None, <<c>> is the Config c.
NoConfig == <<>>
CallerConfig == [retries |-> [max_attempts |-> 3, mode |-> "standard"],
                 user_agent_extra |-> ""]
ConfigArgs == {NoConfig, <<CallerConfig>>}

\* _DEFAULT_CONFIG
DEFAULT_CONFIG ==
    [retries |-> [max_attempts |-> 10, mode |-> "adaptive"],
     user_agent_extra |-> "UdemyBoto3Scripts/2025-12"]

\* Python truthiness of an optional string.
Truthy(x) == x # None /\ x # ""

\* Python's `a or b`.
PyOr(a, b) == IF Truthy(a) THEN a ELSE b

\* boto3: what Session(...).region_name can be.  The SDK reads
\* AWS_DEFAULT_REGION before the profile's configured region and does not
\* read AWS_REGION; for an empty AWS_DEFAULT_REGION either outcome is allowed.
SessionRegionNames(env, profile_region) ==
    IF env.AWS_DEFAULT_REGION = None THEN {profile_region}
    ELSE IF env.AWS_DEFAULT_REGION = "" THEN {"", profile_region}
    ELSE {env.AWS_DEFAULT_REGION}

\* _resolve_region without the test of lines 77-81.
ResolveRegionUnchecked(session_region, region, env) ==
    [raised |-> None,
     value |-> PyOr(region, PyOr(session_region,
                   PyOr(env.AWS_REGION, env.AWS_DEFAULT_REGION)))]

\* _resolve_region, lines 69-82.
ResolveRegion(session_region, region, env) ==
    LET resolved_region ==
            PyOr(region, PyOr(session_region,
                PyOr(env.AWS_REGION, env.AWS_DEFAULT_REGION)))
    IN  IF ~Truthy(resolved_region)
        THEN [raised |-> "ValueError", value |-> None]
        ELSE [raised |-> None, value |-> resolved_region]

\* Lines 93 and 109: session_kwargs, a dict as a set of (key, value) pairs.
SessionKwargs(profile) ==
    IF Truthy(profile) THEN {<<"profile_name", profile>>} ELSE {}

\* boto3: Session(**session_kwargs) raises ProfileNotFound for an unknown profile.
SessionRaises(session_kwargs) == <<"profile_name", "missing">> \in session_kwargs

\* What a call of get_client or get_resource did: the session it built, the
\* exception that left it, and the objects it created.
AwsResult(session_kwargs, raised, created) ==
    [session_kwargs |-> session_kwargs, raised |-> raised, created |-> created]

\* get_resource with the caller's config dropped.
GetResourceDefaultConfigOnly(service_name, profile, region, config, w) ==
    LET session_kwargs == SessionKwargs(profile)
        resolved == ResolveRegion(w.session_region, region, w.env)
    IN  IF SessionRaises(session_kwargs)
        THEN AwsResult(session_kwargs, "ProfileNotFound", <<>>)
        ELSE IF resolved.raised # None
        THEN AwsResult(session_kwargs, resolved.raised, <<>>)
        ELSE AwsResult(session_kwargs, None,
                 <<[factory |-> "resource", service_name |-> service_name,
                    region_name |-> resolved.value,
                    config |-> DEFAULT_CONFIG]>>)

\* get_client, lines 85-98.
GetClient(service_name, profile, region, config, w) ==
    LET session_kwargs == SessionKwargs(profile)
        resolved == ResolveRegion(w.session_region, region, w.env)
    IN  IF SessionRaises(session_kwargs)
        THEN AwsResult(session_kwargs, "ProfileNotFound", <<>>)
        ELSE IF resolved.raised # None
        THEN AwsResult(session_kwargs, resolved.raised, <<>>)
        ELSE AwsResult(session_kwargs, None,
                 <<[factory |-> "client", service_name |-> service_name,
                    region_name |-> resolved.value,
                    config |-> IF config # NoConfig THEN config[1]
                               ELSE DEFAULT_CONFIG]>>)

\* get_resource, lines 101-114.
GetResource(service_name, profile, region, config, w) ==
    LET session_kwargs == SessionKwargs(profile)
        resolved == ResolveRegion(w.session_region, region, w.env)
    IN  IF SessionRaises(session_kwargs)
        THEN AwsResult(session_kwargs, "ProfileNotFound", <<>>)
        ELSE IF resolved.raised # None
        THEN AwsResult(session_kwargs, resolved.raised, <<>>)
        ELSE AwsResult(session_kwargs, None,
                 <<[factory |-> "resource", service_name |-> service_name,
                    region_name |-> resolved.value,
                    config |-> IF config # NoConfig THEN config[1]
                               ELSE DEFAULT_CONFIG]>>)

\* A call that has not been made yet.
NotCalled == AwsResult({}, "not called", <<>>)

InitAws ==
    /\ \E service_name \in ServiceNames, profile \in ProfileArgs,
          region \in RegionArgs, config \in ConfigArgs,
          profile_region \in ProfileRegions,
          aws_region \in EnvValues, aws_default_region \in EnvValues :
         LET env == [AWS_REGION |-> aws_region,
                     AWS_DEFAULT_REGION |-> aws_default_region]
         IN  \E session_region \in SessionRegionNames(env, profile_region) :
               aws = [pc |-> "ready", service_name |-> service_name,
                      profile |-> profile, region |-> region,
                      config |-> config, env |-> env,
                      profile_region |-> profile_region,
                      session_region |-> session_region,
                      client |-> NotCalled, resource |-> NotCalled]
    /\ volState = <<>> /\ volTags = <<>> /\ vol = Idle
    /\ iamUsers = {} /\ usr = Idle
    /\ keyMeta = <<>> /\ keys = Idle
    /\ instState = <<>> /\ ec2 = Idle
    /\ snapshots = {} /\ snap = Idle

\* A caller calls get_client.
AwsGetClient ==
    /\ aws.pc = "ready" /\ aws.client = NotCalled
    /\ aws' = [aws EXCEPT !.client =
                  GetClient(aws.service_name, aws.profile, aws.region,
                            aws.config, aws)]
    /\ UNCHANGED notAws

\* A caller calls get_resource.
AwsGetResource ==
    /\ aws.pc = "ready" /\ aws.resource = NotCalled
    /\ aws' = [aws EXCEPT !.resource =
                  GetResource(aws.service_name, aws.profile, aws.region,
                              aws.config, aws)]
    /\ UNCHANGED notAws

NextAws ==
    \/ AwsGetClient
    \/ AwsGetResource

SpecAws == InitAws /\ [][NextAws]_vars

\* The calls made so far that got as far as _resolve_region.
AwsResolved ==
    {r \in {aws.client, aws.resource} :
        r # NotCalled /\ r.raised # "ProfileNotFound"}

\* The environment regions that are set.
EnvRegions ==
    {e \in {aws.env.AWS_REGION, aws.env.AWS_DEFAULT_REGION} : Truthy(e)}

\* C12: an explicit non-empty region always wins, and without one, when an
\* environment region and the profile-configured region (session.region_name)
\* are set to different values, the environment value is returned.
C12_PrefersCliEnvOverProfile ==
    \A r \in AwsResolved :
        /\ Truthy(aws.region) =>
              r.raised = None /\ r.created[1].region_name = aws.region
        /\ (/\ ~Truthy(aws.region)
            /\ Truthy(aws.session_region)
            /\ \E e \in EnvRegions : e # aws.session_region) =>
              r.raised = None /\ r.created[1].region_name \in EnvRegions

\* C13: _resolve_region returns a non-empty region or raises ValueError; it
\* raises ValueError when the explicit region, session.region_name, AWS_REGION
\* and AWS_DEFAULT_REGION are all unset or empty, and then get_client and
\* get_resource create no client or resource.
C13_NonEmptyRegionOrValueError ==
    \A r \in AwsResolved :
        /\ r.raised \in {None, "ValueError"}
        /\ r.raised = None =>
              Len(r.created) = 1 /\ Truthy(r.created[1].region_name)
        /\ r.raised = "ValueError" => r.created = <<>>
        /\ r.raised = "ValueError" <=>
              /\ ~Truthy(aws.region) /\ ~Truthy(aws.session_region)
              /\ ~Truthy(aws.env.AWS_REGION)
              /\ ~Truthy(aws.env.AWS_DEFAULT_REGION)

C13_Witness ==
    /\ aws.client.raised = "ValueError" /\ aws.resource.raised = "ValueError"
    /\ aws.client.created = <<>> /\ aws.resource.created = <<>>
    /\ aws.region = "" /\ aws.env.AWS_REGION = ""

\* C14: for the same service, profile, region, config and environment,
\* get_client and get_resource build the same session (with the profile only
\* when one is given), raise alike, resolve the same region and pass the same
\* config: the caller's if provided, otherwise the shared default (retries
\* max_attempts=10, mode adaptive); they differ only in the factory called.
C14_ClientAndResourceAgree ==
    (aws.client # NotCalled /\ aws.resource # NotCalled) =>
        /\ aws.client.session_kwargs = aws.resource.session_kwargs
        /\ aws.client.session_kwargs =
              (IF aws.profile \in {None, ""} THEN {}
               ELSE {<<"profile_name", aws.profile>>})
        /\ aws.client.raised = aws.resource.raised
        /\ Len(aws.client.created) = Len(aws.resource.created)
        /\ aws.client.raised = None =>
              /\ aws.client.created[1].factory = "client"
              /\ aws.resource.created[1].factory = "resource"
              /\ \A f \in {"service_name", "region_name", "config"} :
                    aws.client.created[1][f] = aws.resource.created[1][f]
              /\ aws.client.created[1].service_name = aws.service_name
              /\ aws.client.created[1].config =
                    (IF aws.config = NoConfig
                     THEN [retries |-> [max_attempts |-> 10, mode |-> "adaptive"],
                           user_agent_extra |-> "UdemyBoto3Scripts/2025-12"]
                     ELSE aws.config[1])

C14_Witness ==
    /\ aws.client # NotCalled /\ aws.resource # NotCalled
    /\ aws.client.raised = None /\ aws.profile = "dev"
    /\ aws.config # NoConfig /\ aws.region = None
    /\ aws.resource.created[1].region_name = aws.env.AWS_REGION

-----------------------------------------------------------------------------
(***************************************************************************)
(* One run of any one of the five scripts                                  *)
(***************************************************************************)

\* resource_ebs_snap.find_volume_ids, lines 27-47: the ids of the volumes
\* that ec2.volumes lists, each volume once, in the order EC2 returns them.
FoundVolumeIdLists == {s \in VolumeIdLists : NoDuplicates(s)}

\* resource_ebs_snap.main before find_volume_ids.
InitSnapMain ==
    /\ snapshots \in {{}, {"snap-1"}}
    /\ \E dry_run \in BOOLEAN, wait \in BOOLEAN :
         snap = [pc |-> "main", volume_ids |-> <<>>,
                 dry_run |-> dry_run, wait |-> wait, i |-> 1,
                 snapshot_ids |-> <<>>, calls |-> <<>>, waits |-> <<>>,
                 raised |-> None, result |-> <<>>, snaps0 |-> snapshots]
    /\ volState = <<>> /\ volTags = <<>> /\ vol = Idle
    /\ iamUsers = {} /\ usr = Idle
    /\ keyMeta = <<>> /\ keys = Idle
    /\ instState = <<>> /\ ec2 = Idle
    /\ aws = Idle

\* main lines 147-162: find_volume_ids returns; with no volume main returns,
\* otherwise it calls create_snapshots with the list.
SnapMainFind ==
    /\ snap.pc = "main"
    /\ \E volume_ids \in FoundVolumeIdLists :
         snap' = [snap EXCEPT !.volume_ids = volume_ids,
                              !.pc = IF volume_ids = <<>> THEN "exit"
                                     ELSE "loop"]
    /\ UNCHANGED <<snapshots, notSnap>>

\* main lines 147-152 and 167-169: the listing raises a ClientError.
SnapMainFindError ==
    /\ snap.pc = "main"
    /\ \E code \in ErrorCodes :
         snap' = [snap EXCEPT !.raised = code, !.pc = "raised"]
    /\ UNCHANGED <<snapshots, notSnap>>

InitScripts ==
    \/ InitVol
    \/ InitUsers
    \/ InitKeys
    \/ InitEc2
    \/ InitSnapMain

\* The account's volumes change only where there are volumes.
ScriptsEnvAttach(v) == vol # Idle /\ EnvAttach(v)
ScriptsEnvTag(v) == vol # Idle /\ EnvTag(v)

\* The account's instances settle only where there are instances.
ScriptsEc2Settle(i) == ec2 # Idle /\ Ec2Settle(i)

NextScripts ==
    \/ VolList
    \/ VolListError
    \/ VolDeleteOk
    \/ VolDeleteError
    \/ VolWaitOk
    \/ VolWaitError
    \/ \E v \in Volumes : ScriptsEnvAttach(v)
    \/ \E v \in Volumes : ScriptsEnvTag(v)
    \/ UsrDryRunIter
    \/ UsrCreateOk
    \/ UsrCreateExists
    \/ UsrCreateError
    \/ UsrReturn
    \/ KeysPageOk
    \/ KeysPageError
    \/ KeysScanSkip
    \/ KeysScanYield
    \/ KeysLastUsedError
    \/ KeysListed
    \/ KeysDeactivateOk
    \/ KeysDeleteOk
    \/ KeysMutateError
    \/ Ec2CallOk
    \/ \E code \in ErrorCodes : Ec2CallError(code)
    \/ Ec2WaitOk
    \/ Ec2WaitError
    \/ \E i \in Instances : ScriptsEc2Settle(i)
    \/ SnapMainFind
    \/ SnapMainFindError
    \/ SnapCreateOk
    \/ \E code \in ErrorCodes : SnapCreateError(code)
    \/ SnapReturn
    \/ SnapWaitOk
    \/ SnapWaitError

SpecScripts == InitScripts /\ [][NextScripts]_vars

\* The targets of the delete_volume calls of the run, in call order.
DeleteVolumeTargets ==
    LET c == SelectSeq(vol.calls, LAMBDA x : x.op = "delete_volume")
    IN  [n \in 1..Len(c) |-> c[n].VolumeId]

\* The targets of the create_snapshot calls of the run, in call order.
CreateSnapshotTargets == [n \in 1..Len(snap.calls) |-> snap.calls[n].VolumeId]

\* C15: in one run of a script each mutating SDK call is issued at most once
\* per target: no user name gets two create_user calls, no volume two
\* delete_volume or two create_snapshot calls, no access key two
\* update_access_key or delete_access_key calls, and the instance operation
\* is called once for the whole id list.  The logs hold the calls that
\* raised as well, so no call is made again after it returned an error.
C15_OneCallPerTarget ==
    /\ vol # Idle => NoDuplicates(DeleteVolumeTargets)
    /\ usr # Idle => NoDuplicates(usr.calls)
    /\ keys # Idle => NoDuplicates(KeyCallIds)
    /\ ec2 # Idle => Len(ec2.calls) <= 1
    /\ snap # Idle => NoDuplicates(CreateSnapshotTargets)

\* A dry run of resource_ebs_snap in which create_snapshot raised for every
\* volume and the script went on to the next volume each time.
C15_Witness ==
    /\ snap # Idle /\ snap.pc = "returned" /\ snap.dry_run
    /\ Len(snap.calls) = 2
    /\ snap.calls[1].VolumeId # snap.calls[2].VolumeId

=============================================================================
